---- MODULE Spec2Model ----
(***************************************************************************)
(* nfx-hashing: low-level hash primitives (Algorithms.inl), the Hasher     *)
(* functor (Hasher.inl) and the lazily initialised SSE4.2 capability flag. *)
(*                                                                         *)
(* Machine words.  uint32_t and uint64_t values are little-endian byte     *)
(* sequences of length 4 and 8 (element 1 is the least significant byte),  *)
(* so that every operation is computed modulo 2^32 or 2^64 exactly as the  *)
(* C++ unsigned arithmetic does.  0x82F63B78 is <<120, 59, 246, 130>>.     *)
(***************************************************************************)
EXTENDS Integers, Sequences, FiniteSets, TLC

\* ------------------------------------------------------------------------
\* Fixed-width unsigned arithmetic (C++ uint32_t / uint64_t semantics)
\* ------------------------------------------------------------------------

Pow2(n) == CASE n = 0 -> 1 [] n = 1 -> 2 [] n = 2 -> 4 [] n = 3 -> 8
             [] n = 4 -> 16 [] n = 5 -> 32 [] n = 6 -> 64 [] n = 7 -> 128
             [] n = 8 -> 256

RECURSIVE XorBits(_, _, _)
XorBits(a, b, n) ==
    IF n = 0 THEN 0
    ELSE ((a + b) % 2) + 2 * XorBits(a \div 2, b \div 2, n - 1)

RECURSIVE AndBits(_, _, _)
AndBits(a, b, n) ==
    IF n = 0 THEN 0
    ELSE ((a % 2) * (b % 2)) + 2 * AndBits(a \div 2, b \div 2, n - 1)

\* bitwise operations on two bytes
XorB(a, b) == XorBits(a, b, 8)
AndB(a, b) == AndBits(a, b, 8)

\* the sequence <<f[i], ..., f[n]>>
RECURSIVE TupleFrom(_, _, _)
TupleFrom(f, i, n) == IF i > n THEN <<>> ELSE <<f[i]>> \o TupleFrom(f, i + 1, n)

\* the sequence <<f[1], ..., f[n]>>
Tuple(f, n) == TupleFrom(f, 1, n)

\* TRUE, for a value v that has been computed: a loop tests its accumulator
\* with it so that each iteration works on a value, as the C++ loops do,
\* and not on a deferred expression that grows with every iteration
Computed(v) == v = v

\* the byte of word a at 1-based index i, zero outside the word
Limb(a, i) == IF i >= 1 /\ i <= Len(a) THEN a[i] ELSE 0

Zero(n) == Tuple([i \in 1..n |-> 0], n)

\* an n-byte word holding the small non-negative number v (v < 2^31)
RECURSIVE Word(_, _)
Word(n, v) == IF n = 0 THEN <<>> ELSE <<v % 256>> \o Word(n - 1, v \div 256)

Xor(a, b) == Tuple([i \in 1..Len(a) |-> XorB(a[i], b[i])], Len(a))
And(a, b) == Tuple([i \in 1..Len(a) |-> AndB(a[i], b[i])], Len(a))

\* a >> k and a << k on a word of Len(a) bytes
Shr(a, k) ==
    LET q == k \div 8
        r == k % 8
    IN  Tuple([i \in 1..Len(a) |->
                  (Limb(a, i + q) \div Pow2(r))
                  + (Limb(a, i + q + 1) % Pow2(r)) * Pow2(8 - r)], Len(a))

Shl(a, k) ==
    LET q == k \div 8
        r == k % 8
    IN  Tuple([i \in 1..Len(a) |->
                  ((Limb(a, i - q) * Pow2(r)) % 256)
                  + (Limb(a, i - q - 1) \div Pow2(8 - r))], Len(a))

RECURSIVE AddFrom(_, _, _, _)
AddFrom(a, b, i, carry) ==
    IF i > Len(a) THEN <<>>
    ELSE LET s == a[i] + Limb(b, i) + carry
         IN  <<s % 256>> \o AddFrom(a, b, i + 1, s \div 256)

\* a + b modulo 2^(8 * Len(a))
Add(a, b) == AddFrom(a, b, 1, 0)

RECURSIVE SubFrom(_, _, _, _)
SubFrom(a, b, i, borrow) ==
    IF i > Len(a) THEN <<>>
    ELSE LET d == a[i] - Limb(b, i) - borrow
         IN  <<(d + 256) % 256>> \o SubFrom(a, b, i + 1, IF d < 0 THEN 1 ELSE 0)

\* a - b modulo 2^(8 * Len(a))
Sub(a, b) == SubFrom(a, b, 1, 0)

RECURSIVE Column(_, _, _, _)
Column(a, b, k, i) ==
    IF i > k THEN 0 ELSE a[i] * Limb(b, k + 1 - i) + Column(a, b, k, i + 1)

RECURSIVE MulFrom(_, _, _, _)
MulFrom(a, b, k, carry) ==
    IF k > Len(a) THEN <<>>
    ELSE LET s == carry + Column(a, b, k, 1)
         IN  <<s % 256>> \o MulFrom(a, b, k + 1, s \div 256)

\* a * b modulo 2^(8 * Len(a))
Mul(a, b) == MulFrom(a, b, 1, 0)

\* static_cast of an unsigned word to an unsigned type of n bytes
\* (truncation, or zero extension when n > Len(a))
CastU(a, n) == Tuple([i \in 1..n |-> Limb(a, i)], n)

\* the upper half of a 64-bit word as a 32-bit word: uint32_t( a >> 32 )
High32(a) == CastU(Shr(a, 32), 4)

RECURSIVE LessFrom(_, _, _)
LessFrom(a, b, i) ==
    IF i = 0 THEN FALSE
    ELSE IF Limb(a, i) # Limb(b, i) THEN Limb(a, i) < Limb(b, i)
    ELSE LessFrom(a, b, i - 1)

\* unsigned a < b
Less(a, b) == LessFrom(a, b, IF Len(a) > Len(b) THEN Len(a) ELSE Len(b))

IsZero(a) == \A i \in 1..Len(a) : a[i] = 0

\* ------------------------------------------------------------------------
\* Constants.h
\* ------------------------------------------------------------------------

FNV_OFFSET_BASIS_32 == <<197, 157, 28, 129>>                        \* 0x811C9DC5
FNV_PRIME_32 == <<147, 1, 0, 1>>                                    \* 0x01000193
FNV_OFFSET_BASIS_64 == <<37, 35, 34, 132, 228, 156, 242, 203>>      \* 0xCBF29CE484222325
FNV_PRIME_64 == <<179, 1, 0, 0, 0, 1, 0, 0>>                        \* 0x00000100000001B3
KNUTH_MULTIPLIER_32 == <<59, 159, 93, 4>>                           \* 0x045d9f3b
WANG_MULTIPLIER_64_C1 == <<185, 229, 228, 28, 109, 71, 88, 191>>    \* 0xbf58476d1ce4e5b9
WANG_MULTIPLIER_64_C2 == <<235, 17, 49, 19, 187, 73, 208, 148>>     \* 0x94d049bb133111eb
GOLDEN_RATIO_32 == <<185, 121, 55, 158>>                            \* 0x9e3779b9
GOLDEN_RATIO_64 == <<21, 124, 74, 127, 185, 121, 55, 158>>          \* 0x9e3779b97f4a7c15
MURMUR3_MULTIPLIER_C1 == <<205, 140, 85, 237, 215, 175, 81, 255>>   \* 0xff51afd7ed558ccd
MURMUR3_MULTIPLIER_C2 == <<83, 236, 133, 26, 254, 185, 206, 196>>   \* 0xc4ceb9fe1a85ec53
SEED_MIX_MULTIPLIER_64 == <<29, 221, 108, 79, 145, 244, 69, 37>>    \* 0x2545F4914F6CDD1D

\* ------------------------------------------------------------------------
\* Algorithms.inl: SSE4.2 detection
\* ------------------------------------------------------------------------

\* a probe that takes a failed or missing CPUID query for support
Sse42ProbeAssumeSupported(comp, cpuidOk, ecxBit20) ==
    CASE comp = "gnu" -> IF cpuidOk THEN ecxBit20 ELSE TRUE
      [] comp = "msvc" -> ecxBit20
      [] OTHER -> TRUE

\* the lambda that initialises s_hasSse42 under compiler comp ("gnu" for GCC
\* and Clang, "msvc", "other" for a compiler with neither probe): cpuidOk is
\* the return value of __get_cpuid, ecxBit20 is ECX bit 20 of CPUID leaf 1
Sse42Probe(comp, cpuidOk, ecxBit20) ==
    CASE comp = "gnu" -> IF cpuidOk THEN ecxBit20 ELSE FALSE
      [] comp = "msvc" -> ecxBit20
      [] OTHER -> FALSE

\* ------------------------------------------------------------------------
\* Algorithms.inl: hash algorithm primitives
\* ------------------------------------------------------------------------

\* larson with the multiplier 31
larsonTimes31(hash, ch) ==
    Add(Mul(Word(Len(hash), 31), hash), Word(Len(hash), ch))

\* larson<HashType>( hash, ch ); HashType is the type of hash
larson(hash, ch) ==
    Add(Mul(Word(Len(hash), 37), hash), Word(Len(hash), ch))

crc32cPolynomial == <<120, 59, 246, 130>>       \* 0x82F63B78 (reflected)
Crc32cGenerator == <<65, 111, 220, 30>>         \* 0x1EDC6F41 (normal form)

\* crc32cSoft with the reflected CRC-32 (IEEE) polynomial 0xEDB88320 in place
\* of the Castagnoli one
RECURSIVE crc32cSoftLoopIEEE(_, _)
crc32cSoftLoopIEEE(crc, i) ==
    IF i = 8 THEN crc
    ELSE IF crc[1] % 2 = 1
    THEN crc32cSoftLoopIEEE(Xor(Shr(crc, 1), <<32, 131, 184, 237>>), i + 1)
    ELSE crc32cSoftLoopIEEE(Shr(crc, 1), i + 1)

crc32cSoftIEEE(hash, ch) == crc32cSoftLoopIEEE(Xor(hash, Word(4, ch)), 0)

RECURSIVE crc32cSoftLoop(_, _)
crc32cSoftLoop(crc, i) ==
    IF i = 8 THEN crc
    ELSE IF crc[1] % 2 = 1
    THEN crc32cSoftLoop(Xor(Shr(crc, 1), crc32cPolynomial), i + 1)
    ELSE crc32cSoftLoop(Shr(crc, 1), i + 1)

crc32cSoft(hash, ch) == crc32cSoftLoop(Xor(hash, Word(4, ch)), 0)

\* BIT_REFLECT8 / BIT_REFLECT32 of the CRC32 instruction
RECURSIVE Reflect8From(_, _)
Reflect8From(b, n) ==
    IF n = 0 THEN 0
    ELSE (b % 2) * Pow2(n - 1) + Reflect8From(b \div 2, n - 1)

Reflect8(b) == Reflect8From(b, 8)

Reflect32(a) == <<Reflect8(a[4]), Reflect8(a[3]), Reflect8(a[2]), Reflect8(a[1])>>

\* TEMP5 MOD2 0x11EDC6F41 by long division, most significant bit first, on
\* the 40-bit dividend t; the remainder is left in bits 39..8
RECURSIVE Mod2Loop(_, _)
Mod2Loop(t, i) ==
    IF i = 8 THEN t
    ELSE IF t[5] >= 128
    THEN Mod2Loop(Xor(Shl(t, 1), <<0>> \o Crc32cGenerator), i + 1)
    ELSE Mod2Loop(Shl(t, 1), i + 1)

\* the SSE4.2 instruction CRC32 r32, r/m8 behind __builtin_ia32_crc32qi and
\* _mm_crc32_u8:  TEMP1 = BIT_REFLECT8(SRC), TEMP2 = BIT_REFLECT32(DEST),
\* TEMP5 = (TEMP1 << 32) XOR (TEMP2 << 8), TEMP6 = TEMP5 MOD2 0x11EDC6F41,
\* DEST = BIT_REFLECT32(TEMP6)
Crc32Instruction(hash, ch) ==
    LET temp1 == Reflect8(ch)
        temp2 == Reflect32(hash)
        temp5 == Xor(<<0, 0, 0, 0, temp1>>, <<0>> \o temp2)
        temp6 == Mod2Loop(temp5, 0)
    IN  Reflect32(<<temp6[2], temp6[3], temp6[4], temp6[5]>>)

\* the return statement crc32c leaves by: the intrinsic ("hardware") or the
\* call of crc32cSoft ("software")
crc32cPath(hasSse42, comp) ==
    IF hasSse42
    THEN IF comp \in {"gnu", "msvc"} THEN "hardware" ELSE "software"
    ELSE "software"

\* crc32c that hands the intrinsic its operands in the wrong order,
\* __builtin_ia32_crc32qi( ch, hash ): the byte is widened to the CRC state
\* and the state truncated to a byte
crc32cSwappedOperands(hasSse42, comp, hash, ch) ==
    IF hasSse42
    THEN IF comp \in {"gnu", "msvc"}
         THEN Crc32Instruction(Word(4, ch), hash[1])
         ELSE crc32cSoft(hash, ch)
    ELSE crc32cSoft(hash, ch)

\* crc32c with hasSse42 the value hasSse42Support() returns
crc32c(hasSse42, comp, hash, ch) ==
    IF hasSse42
    THEN IF comp \in {"gnu", "msvc"}
         THEN Crc32Instruction(hash, ch)
         ELSE crc32cSoft(hash, ch)
    ELSE crc32cSoft(hash, ch)

\* ------------------------------------------------------------------------
\* Algorithms.inl: seed and bit mixing, hash combination
\* ------------------------------------------------------------------------

Murmur3Avalanche(x0) ==
    LET x1 == Xor(x0, Shr(x0, 33))
        x2 == Mul(x1, MURMUR3_MULTIPLIER_C1)
        x3 == Xor(x2, Shr(x2, 33))
        x4 == Mul(x3, MURMUR3_MULTIPLIER_C2)
    IN  Xor(x4, Shr(x4, 33))

\* seedMix masking with size in place of size - 1
seedMixMaskSize(seed, hash, size, MixConstant) ==
    IF Len(seed) = 4
    THEN LET x0 == Add(seed, hash)
             x1 == Xor(x0, Shr(x0, 12))
             x2 == Xor(x1, Shl(x1, 25))
             x3 == Xor(x2, Shr(x2, 27))
         IN  CastU(And(Mul(CastU(x3, 8), MixConstant), size), 4)
    ELSE LET x == Murmur3Avalanche(Add(seed, hash))
         IN  And(Mul(x, MixConstant), size)

\* seedMix that checks its precondition and returns 0 for a size that is not
\* a power of two
seedMixChecked(seed, hash, size, MixConstant) ==
    IF IsZero(size) \/ ~IsZero(And(size, Sub(size, Word(8, 1))))
    THEN Zero(Len(seed))
    ELSE IF Len(seed) = 4
    THEN LET x0 == Add(seed, hash)
             x1 == Xor(x0, Shr(x0, 12))
             x2 == Xor(x1, Shl(x1, 25))
             x3 == Xor(x2, Shr(x2, 27))
         IN  CastU(And(Mul(CastU(x3, 8), MixConstant), Sub(size, Word(8, 1))), 4)
    ELSE LET x == Murmur3Avalanche(Add(seed, hash))
         IN  And(Mul(x, MixConstant), Sub(size, Word(8, 1)))

\* seedMix<HashType, MixConstant>( seed, hash, size ); HashType is the type
\* of seed (4 or 8 bytes), size and MixConstant are uint64_t
seedMix(seed, hash, size, MixConstant) ==
    IF Len(seed) = 4
    THEN LET x0 == Add(seed, hash)
             x1 == Xor(x0, Shr(x0, 12))
             x2 == Xor(x1, Shl(x1, 25))
             x3 == Xor(x2, Shr(x2, 27))
         IN  CastU(And(Mul(CastU(x3, 8), MixConstant), Sub(size, Word(8, 1))), 4)
    ELSE LET x == Murmur3Avalanche(Add(seed, hash))
         IN  And(Mul(x, MixConstant), Sub(size, Word(8, 1)))

\* the FNV-1 order: multiply, then XOR
combinePrimeMultiplyFirst(existingHash, newHash, prime) ==
    Xor(Mul(existingHash, prime), newHash)

\* combine( existingHash, newHash, prime )
combinePrime(existingHash, newHash, prime) ==
    Mul(Xor(existingHash, newHash), prime)

\* combine( existingHash, newHash )
combine(existingHash, newHash) ==
    IF Len(existingHash) = 4
    THEN Xor(existingHash,
             Add(Add(Add(newHash, GOLDEN_RATIO_32), Shl(existingHash, 6)),
                 Shr(existingHash, 2)))
    ELSE Murmur3Avalanche(
             Xor(existingHash,
                 Add(Add(Add(newHash, GOLDEN_RATIO_64), Shl(existingHash, 6)),
                     Shr(existingHash, 2))))

\* ------------------------------------------------------------------------
\* Hasher.inl: internal::hashStringView, internal::hashInteger
\* ------------------------------------------------------------------------

\* the 32-bit loop: hashValue = crc32c( hashValue, key[i] ) for each byte
RECURSIVE crcFold(_, _, _, _, _)
crcFold(hasSse42, comp, hashValue, key, i) ==
    IF i > Len(key) \/ ~Computed(hashValue) THEN hashValue
    ELSE crcFold(hasSse42, comp, crc32c(hasSse42, comp, hashValue, key[i]), key, i + 1)

\* a high stream that takes byte + 1 in place of byte ^ 0xFF
RECURSIVE crcFoldIncremented(_, _, _, _, _)
crcFoldIncremented(hasSse42, comp, high, key, i) ==
    IF i > Len(key) \/ ~Computed(high) THEN high
    ELSE crcFoldIncremented(hasSse42, comp,
                            crc32c(hasSse42, comp, high, (key[i] + 1) % 256),
                            key, i + 1)

\* the high stream of the 64-bit loop: high = crc32c( high, byte ^ 0xFF )
RECURSIVE crcFoldInverted(_, _, _, _, _)
crcFoldInverted(hasSse42, comp, high, key, i) ==
    IF i > Len(key) \/ ~Computed(high) THEN high
    ELSE crcFoldInverted(hasSse42, comp,
                         crc32c(hasSse42, comp, high, XorB(key[i], 255)), key, i + 1)

\* hashStringView without the early return for an empty key
hashStringViewNoEmptyCheck(Seed, key, hasSse42, comp) ==
    IF Len(Seed) = 4
    THEN crcFold(hasSse42, comp, Seed, key, 1)
    ELSE LET low == crcFold(hasSse42, comp, CastU(Seed, 4), key, 1)
             high == crcFoldInverted(hasSse42, comp, High32(Seed), key, 1)
         IN  low \o high

\* hashStringView with the plain bytes in the high half and the inverted
\* bytes in the low half
hashStringViewSwappedStreams(Seed, key, hasSse42, comp) ==
    IF key = <<>> THEN Zero(Len(Seed))
    ELSE IF Len(Seed) = 4
    THEN crcFold(hasSse42, comp, Seed, key, 1)
    ELSE LET low == crcFoldInverted(hasSse42, comp, CastU(Seed, 4), key, 1)
             high == crcFold(hasSse42, comp, High32(Seed), key, 1)
         IN  low \o high

\* hashStringView that starts the 32-bit loop from Seed + key.length()
hashStringViewSeedPlusLength(Seed, key, hasSse42, comp) ==
    IF key = <<>> THEN Zero(Len(Seed))
    ELSE IF Len(Seed) = 4
    THEN crcFold(hasSse42, comp, Add(Seed, Word(4, Len(key))), key, 1)
    ELSE LET low == crcFold(hasSse42, comp, CastU(Seed, 4), key, 1)
             high == crcFoldInverted(hasSse42, comp, High32(Seed), key, 1)
         IN  low \o high

\* hashStringView<HashType, Seed>( key ); HashType is the type of Seed
hashStringView(Seed, key, hasSse42, comp) ==
    IF key = <<>> THEN Zero(Len(Seed))
    ELSE IF Len(Seed) = 4
    THEN crcFold(hasSse42, comp, Seed, key, 1)
    ELSE LET low == crcFold(hasSse42, comp, CastU(Seed, 4), key, 1)
             high == crcFoldInverted(hasSse42, comp, High32(Seed), key, 1)
         IN  low \o high

\* integral types: size in bytes and signedness
IntegralTypes == {[size |-> z, signed |-> sg] : z \in {1, 2, 4, 8}, sg \in BOOLEAN}
SizeT == [size |-> 8, signed |-> FALSE]

\* static_cast of a value of integral type T (its two's complement bytes) to
\* an unsigned type of n bytes: truncation, sign or zero extension
CastInt(value, T, n) ==
    LET fill == IF T.signed /\ value[Len(value)] >= 128 THEN 255 ELSE 0
    IN  Tuple([i \in 1..n |-> IF i <= Len(value) THEN value[i] ELSE fill], n)

\* a Knuth mix that drops the low half in its first round
KnuthMixShiftOnly(x0) ==
    LET x1 == Mul(Shr(x0, 16), KNUTH_MULTIPLIER_32)
        x2 == Mul(Xor(Shr(x1, 16), x1), KNUTH_MULTIPLIER_32)
    IN  Xor(Shr(x2, 16), x2)

KnuthMix(x0) ==
    LET x1 == Mul(Xor(Shr(x0, 16), x0), KNUTH_MULTIPLIER_32)
        x2 == Mul(Xor(Shr(x1, 16), x1), KNUTH_MULTIPLIER_32)
    IN  Xor(Shr(x2, 16), x2)

WangMix(x0) ==
    LET x1 == Mul(Xor(x0, Shr(x0, 30)), WANG_MULTIPLIER_64_C1)
        x2 == Mul(Xor(x1, Shr(x1, 27)), WANG_MULTIPLIER_64_C2)
    IN  Xor(x2, Shr(x2, 31))

\* hashInteger without the early return for zero
hashIntegerNoZeroCheck(Seed, T, value) ==
    IF Len(Seed) = 4
    THEN IF T.size = 8
         THEN LET v64 == Xor(CastInt(value, T, 8), CastU(Seed, 8))
              IN  KnuthMix(CastU(Xor(v64, Shr(v64, 32)), 4))
         ELSE KnuthMix(Xor(CastInt(value, T, 4), Seed))
    ELSE WangMix(Xor(CastInt(value, T, 8), CastU(Seed, 8)))

\* hashInteger whose 64-bit branch casts the seed to uint32_t
hashIntegerNarrowSeed(Seed, T, value) ==
    IF IsZero(value) THEN Zero(Len(Seed))
    ELSE IF Len(Seed) = 4
    THEN IF T.size = 8
         THEN LET v64 == Xor(CastInt(value, T, 8), CastU(Seed, 8))
              IN  KnuthMix(CastU(Xor(v64, Shr(v64, 32)), 4))
         ELSE KnuthMix(Xor(CastInt(value, T, 4), Seed))
    ELSE WangMix(Xor(CastInt(value, T, 8), CastU(CastU(Seed, 4), 8)))

\* hashInteger<HashType, Seed, T>( value )
hashInteger(Seed, T, value) ==
    IF IsZero(value) THEN Zero(Len(Seed))
    ELSE IF Len(Seed) = 4
    THEN IF T.size = 8
         THEN LET v64 == Xor(CastInt(value, T, 8), CastU(Seed, 8))
              IN  KnuthMix(CastU(Xor(v64, Shr(v64, 32)), 4))
         ELSE KnuthMix(Xor(CastInt(value, T, 4), Seed))
    ELSE WangMix(Xor(CastInt(value, T, 8), CastU(Seed, 8)))

\* ------------------------------------------------------------------------
\* Hasher.inl: Hasher<HashType, Seed>::operator() overloads
\* ------------------------------------------------------------------------

\* a float or a double as its IEEE-754 bit pattern, least significant byte
\* first: FloatInfinity is the pattern of +infinity, quiet_NaN the pattern
\* std::numeric_limits<T>::quiet_NaN() has
FloatInfinity(n) == IF n = 4 THEN <<0, 0, 128, 127>>
                    ELSE <<0, 0, 0, 0, 0, 0, 240, 127>>
quiet_NaN(n) == IF n = 4 THEN <<0, 0, 192, 127>>
                ELSE <<0, 0, 0, 0, 0, 0, 248, 127>>
FloatMagnitude(bits) == [bits EXCEPT ![Len(bits)] = bits[Len(bits)] % 128]

\* value == 0.0: every bit but the sign is clear
FloatIsZero(bits) == IsZero(FloatMagnitude(bits))

\* std::isnan( value ): exponent all ones and a non-zero fraction
isnan(bits) == Less(FloatInfinity(Len(bits)), FloatMagnitude(bits))

\* the floating-point overload without the normalisation of zero
hashFloatKeepZeroSign(Seed, value) ==
    LET bits == IF isnan(value) THEN quiet_NaN(Len(value)) ELSE value
    IN  hashInteger(Seed, [size |-> Len(bits), signed |-> FALSE], bits)

\* the floating-point overload without the normalisation of NaN
hashFloatKeepNaN(Seed, value) ==
    LET bits == IF FloatIsZero(value) THEN Zero(Len(value)) ELSE value
    IN  hashInteger(Seed, [size |-> Len(bits), signed |-> FALSE], bits)

\* operator()( T value ) for float and double
hashFloat(Seed, value) ==
    LET zeroed == IF FloatIsZero(value) THEN Zero(Len(value)) ELSE value
        bits == IF isnan(zeroed) THEN quiet_NaN(Len(value)) ELSE zeroed
    IN  hashInteger(Seed, [size |-> Len(bits), signed |-> FALSE], bits)

\* a view over a C string that takes in the terminating NUL as well
RECURSIVE CStrViewWithTerminator(_, _)
CStrViewWithTerminator(mem, i) ==
    IF i > Len(mem) THEN <<>>
    ELSE IF mem[i] = 0 THEN <<0>>
    ELSE <<mem[i]>> \o CStrViewWithTerminator(mem, i + 1)

\* std::string_view( const char* ): the bytes before the first NUL
RECURSIVE CStrView(_, _)
CStrView(mem, i) ==
    IF i > Len(mem) \/ mem[i] = 0 THEN <<>>
    ELSE <<mem[i]>> \o CStrView(mem, i + 1)

\* the bytes the string_view handed to hashStringView covers
StringBytes(v) == IF v.form = "cstr" THEN CStrView(v.bytes, 1) ELSE v.bytes

\* result = combine( result, hash( elem ) ) over the element hashes hs
RECURSIVE combineFold(_, _, _)
combineFold(result, hs, i) ==
    IF i > Len(hs) \/ ~Computed(result) THEN result
    ELSE combineFold(combine(result, hs[i]), hs, i + 1)

\* std::array hashed the way std::vector is, starting from
\* combine( Seed, hash( N ) )
hashArrayWithSize(Seed, hs) ==
    combineFold(combine(Seed, hashInteger(Seed, [size |-> 8, signed |-> FALSE],
                                          Word(8, Len(hs)))), hs, 1)

\* operator()( const std::array<T, N>& ) on the hashes of the elements
hashArray(Seed, hs) == combineFold(Seed, hs, 1)

\* an optional whose absent state hashes to Seed
hashOptionalAbsentIsSeed(Seed, hasValue, h) ==
    IF hasValue
    THEN combine(h, Word(Len(Seed), 1))
    ELSE Seed

\* operator()( const std::optional<T>& ); h is the hash of *opt
hashOptional(Seed, hasValue, h) ==
    IF hasValue
    THEN combine(h, Word(Len(Seed), 1))
    ELSE combine(Seed, Word(Len(Seed), 0))

\* operator()( const std::pair<T1, T2>& )
hashPair(h1, h2) == combine(h1, h2)

\* operator()( std::span<T, Extent> )
hashSpan(Seed, hs) == combineFold(Seed, hs, 1)

\* operator()( const std::tuple<Ts...>& )
hashTuple(Seed, hs) == combineFold(Seed, hs, 1)

\* operator()( const std::variant<Ts...>& )
hashVariant(indexHash, valueHash) == combine(indexHash, valueHash)

\* operator()( const std::vector<T>& ); sizeHash is the hash of vec.size()
hashVector(Seed, sizeHash, hs) == combineFold(combine(Seed, sizeHash), hs, 1)

\* a fallback that adds the seed
hashFallbackAddSeed(Seed, hashValue) ==
    IF Len(Seed) = 4
    THEN Add(CastU(Xor(hashValue, Shr(hashValue, 32)), 4), Seed)
    ELSE Add(hashValue, Seed)

\* operator()( const TKey& ) for a custom type; hashValue is what
\* std::hash<TKey>{}( key ) returns, a size_t of 8 bytes
hashFallback(Seed, hashValue) ==
    IF Len(Seed) = 4
    THEN Xor(CastU(Xor(hashValue, Shr(hashValue, 32)), 4), Seed)
    ELSE Xor(hashValue, Seed)

\* Values.  [kind |-> "int", T, bits], [kind |-> "float", bits],
\* [kind |-> "custom", stdHash],
\* [kind |-> "str", form, bytes],
\* [kind |-> "optional", has, val], [kind |-> "pair", first, second],
\* [kind |-> "variant", index, val] and, with a sequence elems of values,
\* the kinds "array", "span", "tuple" and "vector".
NoValue == [kind |-> "none"]
IntV(T, bits) == [kind |-> "int", T |-> T, bits |-> bits]
FloatV(bits) == [kind |-> "float", bits |-> bits]
CustomV(stdHash) == [kind |-> "custom", stdHash |-> stdHash]
StrV(form, bytes) == [kind |-> "str", form |-> form, bytes |-> bytes]
OptV(has, val) == [kind |-> "optional", has |-> has, val |-> val]
PairV(a, b) == [kind |-> "pair", first |-> a, second |-> b]
VarV(index, val) == [kind |-> "variant", index |-> index, val |-> val]
SeqV(kind, elems) == [kind |-> kind, elems |-> elems]

\* Hasher<HashType, Seed>{}( v ): overload resolution on the shape of v
RECURSIVE Hasher(_, _, _, _)
Hasher(Seed, v, hasSse42, comp) ==
    LET H(e) == Hasher(Seed, e, hasSse42, comp)
        hs == IF v.kind \in {"array", "span", "tuple", "vector"}
              THEN Tuple([i \in 1..Len(v.elems) |-> H(v.elems[i])], Len(v.elems))
              ELSE <<>>
    IN  CASE v.kind = "str" -> hashStringView(Seed, StringBytes(v), hasSse42, comp)
          [] v.kind = "int" -> hashInteger(Seed, v.T, v.bits)
          [] v.kind = "float" -> hashFloat(Seed, v.bits)
          [] v.kind = "custom" -> hashFallback(Seed, v.stdHash)
          [] v.kind = "array" -> hashArray(Seed, hs)
          [] v.kind = "optional" ->
                hashOptional(Seed, v.has, IF v.has THEN H(v.val) ELSE Zero(Len(Seed)))
          [] v.kind = "pair" -> hashPair(H(v.first), H(v.second))
          [] v.kind = "span" -> hashSpan(Seed, hs)
          [] v.kind = "tuple" -> hashTuple(Seed, hs)
          [] v.kind = "variant" ->
                hashVariant(H(IntV(SizeT, Word(8, v.index))), H(v.val))
          [] v.kind = "vector" ->
                hashVector(Seed, H(IntV(SizeT, Word(8, Len(v.elems)))), hs)

\* whether hashing v reaches crc32c (and so hasSse42Support): some string
\* that gets hashed is not empty
RECURSIVE CallsCrc32c(_)
CallsCrc32c(v) ==
    CASE v.kind = "str" -> StringBytes(v) # <<>>
      [] v.kind = "int" -> FALSE
      [] v.kind = "float" -> FALSE
      [] v.kind = "custom" -> FALSE
      [] v.kind = "optional" -> v.has /\ CallsCrc32c(v.val)
      [] v.kind = "pair" -> CallsCrc32c(v.first) \/ CallsCrc32c(v.second)
      [] v.kind = "variant" -> CallsCrc32c(v.val)
      [] OTHER -> \E i \in 1..Len(v.elems) : CallsCrc32c(v.elems[i])

\* ------------------------------------------------------------------------
\* Inputs of the calls
\* ------------------------------------------------------------------------

MaxStrLen == 2      \* longest string hashed
MaxElems == 2       \* most elements in an array, span, tuple or vector
MaxIndex == 1       \* largest index of a variant alternative

\* the seeds the Hasher is instantiated with
Seeds32 == {Zero(4), FNV_OFFSET_BASIS_32, Word(4, 1),
            <<239, 190, 173, 222>>,             \* 0xDEADBEEF
            <<29, 252, 37, 97>>}                \* 0x6125FC1D
Seeds64 == {Zero(8), FNV_OFFSET_BASIS_64, Word(8, 1),
            <<0, 0, 0, 0, 255, 0, 0, 0>>,       \* 0x000000FF00000000
            <<239, 190, 173, 222, 0, 0, 0, 0>>} \* 0x00000000DEADBEEF
Seeds == Seeds32 \cup Seeds64

\* running states and bytes handed to crc32c and crc32cSoft
CrcStates == {Zero(4), FNV_OFFSET_BASIS_32, <<255, 255, 255, 255>>,
              <<0, 0, 0, 128>>}
Bytes == 0..255

\* integer values: for every integral type 0, 1, 42, the all-ones pattern
\* and the pattern with only the top bit set
IntBits(z) == {Zero(z), Word(z, 1), Word(z, 42),
               Tuple([i \in 1..z |-> 255], z),
               Tuple([i \in 1..z |-> IF i = z THEN 128 ELSE 0], z)}
Int32 == [size |-> 4, signed |-> TRUE]
UInt32 == [size |-> 4, signed |-> FALSE]
IntValues ==
    {IntV(Int32, <<5, 0, 0, 0>>)}
    \cup UNION {{IntV(T, b) : b \in IntBits(T.size)} : T \in IntegralTypes}
    \cup {IntV(UInt32, <<13, 148, 160, 223>>)}  \* 0xDFA0940D
    \cup {IntV(UInt32, FNV_OFFSET_BASIS_32)}

\* float and double values: both zeros, 1.0 and -1.0, both infinities, the
\* smallest denormal, and NaNs quiet and signaling of either sign
FloatBits(n) ==
    LET top(hi, lo) == Tuple([i \in 1..n |-> IF i = n THEN hi
                                             ELSE IF i = n - 1 THEN lo ELSE 0], n)
        one == IF n = 4 THEN top(63, 128) ELSE top(63, 240)
        minusOne == IF n = 4 THEN top(191, 128) ELSE top(191, 240)
        minusInfinity == [FloatInfinity(n) EXCEPT ![n] = 255]
        minusNaN == [quiet_NaN(n) EXCEPT ![n] = 255]
        signaling == [FloatInfinity(n) EXCEPT ![1] = 1]
    IN  {Zero(n), top(128, 0), one, minusOne, FloatInfinity(n), minusInfinity,
         Word(n, 1), quiet_NaN(n), minusNaN, signaling,
         Tuple([i \in 1..n |-> 255], n)}
FloatValues == {FloatV(b) : b \in FloatBits(4) \cup FloatBits(8)}

\* strings of at most MaxStrLen bytes over a three-byte alphabet, in the
\* three forms the string overloads take; a C string is its bytes in memory
\* followed by the terminating NUL
Alphabet == {0, 97, 255}
RECURSIVE StringsUpTo(_)
StringsUpTo(n) ==
    IF n = 0 THEN {<<>>}
    ELSE LET shorter == StringsUpTo(n - 1)
         IN  shorter \cup {Append(w, c) : w \in shorter, c \in Alphabet}
ByteStrings == StringsUpTo(MaxStrLen)
StrValues ==
    {StrV(form, w) : form \in {"string", "string_view"}, w \in ByteStrings}
    \cup {StrV("cstr", Append(w, 0)) : w \in ByteStrings}

\* elements put into containers
Elems == {IntV(Int32, Word(4, 1)), IntV(Int32, Word(4, 2))}
RECURSIVE ElemSeqs(_)
ElemSeqs(n) ==
    IF n = 0 THEN {<<>>}
    ELSE LET shorter == ElemSeqs(n - 1)
         IN  shorter \cup {Append(w, e) : w \in shorter, e \in Elems}
SeqValues ==
    {SeqV(kind, es) : kind \in {"array", "span", "tuple", "vector"},
                      es \in ElemSeqs(MaxElems)}

Contained == {IntV(Int32, Zero(4)), IntV(Int32, <<5, 0, 0, 0>>),
              IntV(UInt32, <<5, 0, 0, 0>>),
              IntV(UInt32, <<13, 148, 160, 223>>),
              StrV("string", <<>>), StrV("string", <<97>>)}
OptValues == {OptV(FALSE, NoValue)} \cup {OptV(TRUE, e) : e \in Contained}
VarValues == {VarV(i, e) : i \in 0..MaxIndex, e \in Contained}
PairValues == {PairV(a, b) : a \in Elems, b \in {IntV(Int32, Word(4, 2)), StrV("string", <<97>>)}}

\* values of a custom type, by the hash std::hash gives them: two of them
\* fold to the same 32 bits
CustomValues == {CustomV(h) : h \in {Zero(8), Word(8, 1),
                                      <<0, 0, 0, 0, 1, 0, 0, 0>>,
                                      <<66, 0, 0, 0, 239, 190, 173, 222>>,
                                      <<255, 255, 255, 255, 255, 255, 255, 255>>}}

Values == IntValues \cup FloatValues \cup CustomValues \cup StrValues \cup SeqValues \cup OptValues
          \cup VarValues \cup PairValues

\* table sizes handed to seedMix: 2^k as a uint64_t
TableBits == {0, 1, 4, 10, 31, 32, 33, 63}
PowerOfTwo(k) == Shl(Word(8, 1), k)
TableSizes == {PowerOfTwo(k) : k \in TableBits}
\* sizes that break the precondition of seedMix
OtherSizes == {Zero(8), Word(8, 3), Word(8, 6), Word(8, 1000)}
MixInputs32 == {Zero(4), Word(4, 1), Word(4, 42), FNV_OFFSET_BASIS_32,
                <<255, 255, 255, 255>>}
MixInputs64 == {Zero(8), Word(8, 1), Word(8, 42), FNV_OFFSET_BASIS_64,
                <<255, 255, 255, 255, 255, 255, 255, 255>>}

\* hashes and primes handed to combine( existingHash, newHash, prime )
CombineInputs32 == MixInputs32 \cup {<<8, 5, 167, 64>>}     \* 0x40A70508
CombineInputs64 == MixInputs64
CombinePrimes32 == {FNV_PRIME_32, Word(4, 3)}
CombinePrimes64 == {FNV_PRIME_64, Word(8, 3)}

\* states and bytes handed to larson
LarsonStates == {Zero(4), Word(4, 65), Word(4, 2471), FNV_OFFSET_BASIS_32,
                 <<255, 255, 255, 255>>,
                 Zero(8), Word(8, 65), Word(8, 2471), FNV_OFFSET_BASIS_64,
                 <<255, 255, 255, 255, 0, 0, 0, 0>>,
                 <<255, 255, 255, 255, 255, 255, 255, 255>>}
LarsonBytes == {0, 65, 66, 67, 255}

\* ------------------------------------------------------------------------
\* The process: the capability flag and the calls into the library
\* ------------------------------------------------------------------------

VARIABLES
    env,            \* the build and the CPU:
                    \*   [comp, sse42Flags, crc32Builtin, cpuidOk, ecxBit20]
    s_guard,        \* whether the static s_hasSse42 has been initialised
    s_hasSse42,     \* the static local of hasSse42Support
    probes,         \* how many times the initialiser of s_hasSse42 has run
    pc,             \* "idle", or "done" when a call has returned, or
                    \*   "build failed" when there is no program
    call,           \* the call that returned: [op, in, ret]; a call of
                    \*   crc32c also has path, the return statement it
                    \*   left by, and probed, whether it was the call that
                    \*   ran the initialiser of s_hasSse42
    history,        \* the calls a caller has made in a row, oldest first,
                    \*   each with cold, whether s_hasSse42 was still
                    \*   uninitialised when it was made
    threads         \* the threads calling concurrently, a record each:
                    \*   pc, and inside a call op, in, k (calls of crc32c
                    \*   finished), low and high (running hashes), flag
                    \*   (what hasSse42Support returned), ret, probed (it
                    \*   ran the initialiser), waited (it was held at the
                    \*   guard of the static)

vars == <<env, s_guard, s_hasSse42, probes, pc, call, history, threads>>

\* the build options of GCC and Clang: sse42Flags tells whether the build
\* enables SSE4.2 (-msse4.2, -mavx, -march=native on such a CPU: __SSE4_2__),
\* crc32Builtin whether it declares __builtin_ia32_crc32qi (__CRC32__),
\* which SSE4.2 turns on unless -mno-crc32 is given and -mcrc32 turns on by
\* itself
GnuBuilds ==
    {[sse42Flags |-> f, crc32Builtin |-> c] : f \in BOOLEAN, c \in BOOLEAN}

\* a GNU-style build sees __get_cpuid succeed or fail; MSVC's __cpuid has no
\* failure result and MSVC has no __builtin_ia32_crc32qi (sse42Flags is
\* /arch:AVX there); any other compiler has no probe.
Environments ==
    {[comp |-> "gnu", sse42Flags |-> g.sse42Flags, crc32Builtin |-> g.crc32Builtin,
      cpuidOk |-> TRUE, ecxBit20 |-> b] : g \in GnuBuilds, b \in BOOLEAN}
    \cup {[comp |-> "gnu", sse42Flags |-> g.sse42Flags,
           crc32Builtin |-> g.crc32Builtin,
           cpuidOk |-> FALSE, ecxBit20 |-> FALSE] : g \in GnuBuilds}
    \cup {[comp |-> "msvc", sse42Flags |-> f, crc32Builtin |-> FALSE,
           cpuidOk |-> TRUE, ecxBit20 |-> b] : f \in BOOLEAN, b \in BOOLEAN}
    \cup {[comp |-> "other", sse42Flags |-> FALSE, crc32Builtin |-> FALSE,
           cpuidOk |-> FALSE, ecxBit20 |-> FALSE]}

\* whether the translation unit compiles: under GCC and Clang crc32c names
\* __builtin_ia32_crc32qi, which has to be declared; MSVC accepts
\* _mm_crc32_u8 under any /arch, other compilers see neither
Builds(e) == e.comp = "gnu" => e.crc32Builtin

\* whether s_hasSse42 is initialised before any call: with neither probe
\* compiled in, its initialiser is the constant false and the static is
\* constant-initialised, with no guard and no run of the lambda
ConstantInitialised(e) == e.comp = "other"

NoCall == [op |-> "none"]

NumThreads == 2     \* threads that call into the library concurrently
Threads == 1..NumThreads
IdleThread == [pc |-> "idle"]

Init ==
    /\ env \in Environments
    /\ s_guard = ConstantInitialised(env)
    /\ s_hasSse42 = FALSE
    /\ probes = 0
    /\ pc = IF Builds(env) THEN "idle" ELSE "build failed"
    /\ call = NoCall
    /\ history = <<>>
    /\ threads = [t \in Threads |-> IdleThread]

\* the value hasSse42Support() returns: the static is initialised by the
\* probe on the first call and read on every later one
hasSse42Support ==
    IF s_guard THEN s_hasSse42
    ELSE Sse42Probe(env.comp, env.cpuidOk, env.ecxBit20)

\* hasSse42Support() with a local that is not static: the initialiser runs
\* on every call
ProbedEveryCall ==
    /\ s_hasSse42' = Sse42Probe(env.comp, env.cpuidOk, env.ecxBit20)
    /\ s_guard' = TRUE
    /\ probes' = probes + 1

\* the statics after a call of hasSse42Support()
Probed ==
    /\ s_hasSse42' = hasSse42Support
    /\ s_guard' = TRUE
    /\ probes' = IF s_guard THEN probes ELSE probes + 1

Returned(op, in, ret) ==
    /\ pc' = "done"
    /\ call' = [op |-> op, in |-> in, ret |-> ret]

\* one call crc32c( hash, ch )
Crc32cCall(hash, ch) ==
    /\ pc = "idle"
    /\ pc' = "done"
    /\ call' = [op |-> "crc32c", in |-> [hash |-> hash, ch |-> ch],
                ret |-> crc32c(hasSse42Support, env.comp, hash, ch),
                path |-> crc32cPath(hasSse42Support, env.comp),
                probed |-> ~s_guard]
    /\ Probed
    /\ UNCHANGED env

\* crc32c( hash, ch )
CallCrc32c ==
    /\ \E hash \in CrcStates, ch \in Bytes : Crc32cCall(hash, ch)
    /\ UNCHANGED <<history, threads>>

\* crc32cSoft( hash, ch )
CallCrc32cSoft ==
    /\ pc = "idle"
    /\ \E hash \in CrcStates, ch \in {0, 1, 97, 128, 255} :
           Returned("crc32cSoft", [hash |-> hash, ch |-> ch], crc32cSoft(hash, ch))
    /\ UNCHANGED <<env, s_guard, s_hasSse42, probes, history, threads>>

\* seedMix<HashType>( seed, hash, size ) with the default MixConstant
CallSeedMix ==
    /\ pc = "idle"
    /\ \E ins \in {MixInputs32, MixInputs64} :
       \E seed \in ins, hash \in ins, size \in TableSizes \cup OtherSizes :
           Returned("seedMix", [seed |-> seed, hash |-> hash, size |-> size],
                    seedMix(seed, hash, size, SEED_MIX_MULTIPLIER_64))
    /\ UNCHANGED <<env, s_guard, s_hasSse42, probes, history, threads>>

\* combine( existingHash, newHash )
CallCombine ==
    /\ pc = "idle"
    /\ \E ins \in {MixInputs32, MixInputs64} :
       \E a \in ins, b \in ins :
           Returned("combine", [existingHash |-> a, newHash |-> b], combine(a, b))
    /\ UNCHANGED <<env, s_guard, s_hasSse42, probes, history, threads>>

\* one call hash<T, HashType, Seed>( v ), that is
\* Hasher<HashType, Seed>{}( v )
HashCall(Seed, v) ==
    /\ pc = "idle"
    /\ Returned("hash", [Seed |-> Seed, v |-> v],
                Hasher(Seed, v, hasSse42Support, env.comp))
    /\ IF CallsCrc32c(v) THEN Probed
       ELSE UNCHANGED <<s_guard, s_hasSse42, probes>>
    /\ UNCHANGED env

\* larson<HashType>( hash, ch )
CallLarson ==
    /\ pc = "idle"
    /\ \E hash \in LarsonStates, ch \in LarsonBytes :
           Returned("larson", [hash |-> hash, ch |-> ch], larson(hash, ch))
    /\ UNCHANGED <<env, s_guard, s_hasSse42, probes, history, threads>>

\* combine( existingHash, newHash, prime )
CallCombinePrime ==
    /\ pc = "idle"
    /\ \E w \in {[ins |-> CombineInputs32, primes |-> CombinePrimes32],
                  [ins |-> CombineInputs64, primes |-> CombinePrimes64]} :
       \E a \in w.ins, b \in w.ins, prime \in w.primes :
           Returned("combinePrime",
                    [existingHash |-> a, newHash |-> b, prime |-> prime],
                    combinePrime(a, b, prime))
    /\ UNCHANGED <<env, s_guard, s_hasSse42, probes, history, threads>>

\* hash<T, HashType, Seed>( v ) on any of the values
CallHash ==
    /\ \E Seed \in Seeds, v \in Values : HashCall(Seed, v)
    /\ UNCHANGED <<history, threads>>

\* the caller takes the result and is ready for its next call
Return ==
    /\ pc = "done"
    /\ pc' = "idle"
    /\ call' = NoCall
    /\ UNCHANGED <<env, s_guard, s_hasSse42, probes, history, threads>>

Next ==
    \/ CallCrc32c
    \/ CallCrc32cSoft
    \/ CallSeedMix
    \/ CallCombine
    \/ CallCombinePrime
    \/ CallLarson
    \/ CallHash
    \/ Return

Spec == Init /\ [][Next]_vars

\* ------------------------------------------------------------------------
\* A caller that makes several calls in a row and keeps what they returned
\* ------------------------------------------------------------------------

MaxCalls == 3       \* calls the caller makes

RepeatSeeds == {FNV_OFFSET_BASIS_32, FNV_OFFSET_BASIS_64}
RepeatValues == {StrV("cstr", <<97, 255, 0>>), IntV(Int32, Word(4, 42)),
                 SeqV("vector", <<StrV("string_view", <<97>>)>>)}
RepeatCrcInputs == {[hash |-> FNV_OFFSET_BASIS_32, ch |-> 97]}

\* the returning call is written down
Remembered ==
    history' = Append(history, [call |-> call', cold |-> ~s_guard])

RepeatHash ==
    /\ Len(history) < MaxCalls
    /\ \E Seed \in RepeatSeeds, v \in RepeatValues : HashCall(Seed, v)
    /\ Remembered
    /\ UNCHANGED threads

RepeatCrc32c ==
    /\ Len(history) < MaxCalls
    /\ \E in \in RepeatCrcInputs : Crc32cCall(in.hash, in.ch)
    /\ Remembered
    /\ UNCHANGED threads

NextRepeat ==
    \/ RepeatHash
    \/ RepeatCrc32c
    \/ Return

SpecRepeat == Init /\ [][NextRepeat]_vars

\* ------------------------------------------------------------------------
\* Threads that call crc32c and the string hash concurrently.  A thread is
\* "idle", at the "guard" of the static s_hasSse42, "waiting" there for the
\* thread that initialises it, "probing" (in the initialiser), at "release"
\* (value stored, guard not yet set), at "step" (hasSse42Support has
\* returned, the body of crc32c is next) or "done".
\* ------------------------------------------------------------------------

ThreadInputs ==
    {[op |-> "crc32c", in |-> [hash |-> FNV_OFFSET_BASIS_32, ch |-> 97]],
     [op |-> "hash", in |-> [Seed |-> FNV_OFFSET_BASIS_32, v |-> StrV("string", <<>>)]],
     [op |-> "hash", in |-> [Seed |-> FNV_OFFSET_BASIS_64,
                             v |-> StrV("cstr", <<97, 0>>)]]}

\* how many times the call c calls crc32c: once per byte, twice with the
\* 64-bit output
Crc32cCalls(c) ==
    IF c.op = "crc32c" THEN 1
    ELSE Len(StringBytes(c.in.v)) * (IF Len(c.in.Seed) = 4 THEN 1 ELSE 2)

\* the thread as it enters the call c
Entered(c) ==
    IF Crc32cCalls(c) = 0
    THEN [pc |-> "done", op |-> c.op, in |-> c.in, k |-> 0,
          low |-> Zero(4), high |-> Zero(4), flag |-> FALSE,
          ret |-> Zero(Len(c.in.Seed)), probed |-> FALSE, waited |-> FALSE]
    ELSE [pc |-> "guard", op |-> c.op, in |-> c.in, k |-> 0,
          low |-> IF c.op = "crc32c" THEN c.in.hash ELSE CastU(c.in.Seed, 4),
          high |-> IF c.op = "crc32c" \/ Len(c.in.Seed) = 4 THEN Zero(4)
                   ELSE High32(c.in.Seed),
          flag |-> FALSE, ret |-> <<>>, probed |-> FALSE, waited |-> FALSE]

\* a static initialised without a guard: any thread passes at any time
GuardOpenUnguarded == TRUE

\* the guard of the static lets a thread through to read s_hasSse42
GuardOpen == s_guard

\* some thread is in the initialiser of the static
Initialising == \E u \in Threads : threads[u].pc \in {"probing", "release"}

ThreadCall(t) ==
    /\ pc = "idle"
    /\ threads[t].pc = "idle"
    /\ \E c \in ThreadInputs : threads' = [threads EXCEPT ![t] = Entered(c)]
    /\ UNCHANGED <<env, s_guard, s_hasSse42, probes, pc, call, history>>

\* hasSse42Support() returns the initialised static
ThreadRead(t) ==
    /\ threads[t].pc \in {"guard", "waiting"}
    /\ GuardOpen
    /\ threads' = [threads EXCEPT ![t].pc = "step", ![t].flag = s_hasSse42]
    /\ UNCHANGED <<env, s_guard, s_hasSse42, probes, pc, call, history>>

\* the first thread at the uninitialised static enters the initialiser
ThreadAcquire(t) ==
    /\ threads[t].pc = "guard"
    /\ ~s_guard /\ ~Initialising
    /\ threads' = [threads EXCEPT ![t].pc = "probing", ![t].probed = TRUE]
    /\ UNCHANGED <<env, s_guard, s_hasSse42, probes, pc, call, history>>

\* a thread that finds the initialiser running is held until it is done
ThreadWait(t) ==
    /\ threads[t].pc = "guard"
    /\ ~s_guard /\ Initialising
    /\ threads' = [threads EXCEPT ![t].pc = "waiting", ![t].waited = TRUE]
    /\ UNCHANGED <<env, s_guard, s_hasSse42, probes, pc, call, history>>

\* the initialiser runs the probe and stores its result
ThreadProbe(t) ==
    /\ threads[t].pc = "probing"
    /\ s_hasSse42' = Sse42Probe(env.comp, env.cpuidOk, env.ecxBit20)
    /\ probes' = probes + 1
    /\ threads' = [threads EXCEPT ![t].pc = "release"]
    /\ UNCHANGED <<env, s_guard, pc, call, history>>

\* initialisation is complete: the guard is set, the thread goes on to read
ThreadRelease(t) ==
    /\ threads[t].pc = "release"
    /\ s_guard' = TRUE
    /\ threads' = [threads EXCEPT ![t].pc = "guard"]
    /\ UNCHANGED <<env, s_hasSse42, probes, pc, call, history>>

\* the body of crc32c on the flag read, and the loop of hashStringView
\* around it
ThreadStep(t) ==
    LET th == threads[t]
        key == IF th.op = "crc32c" THEN <<th.in.ch>> ELSE StringBytes(th.in.v)
        wide == th.op = "hash" /\ Len(th.in.Seed) = 8
        byte == key[IF wide THEN (th.k \div 2) + 1 ELSE th.k + 1]
        onHigh == wide /\ th.k % 2 = 1
        low == IF onHigh THEN th.low
               ELSE crc32c(th.flag, env.comp, th.low, byte)
        high == IF onHigh THEN crc32c(th.flag, env.comp, th.high, XorB(byte, 255))
                ELSE th.high
        last == th.k + 1 = Crc32cCalls(th)
    IN  /\ th.pc = "step"
        /\ threads' = [threads EXCEPT
                          ![t].k = th.k + 1,
                          ![t].low = low,
                          ![t].high = high,
                          ![t].pc = IF last THEN "done" ELSE "guard",
                          ![t].ret = IF ~last THEN <<>>
                                     ELSE IF wide THEN low \o high ELSE low]
        /\ UNCHANGED <<env, s_guard, s_hasSse42, probes, pc, call, history>>

ThreadReturn(t) ==
    /\ threads[t].pc = "done"
    /\ threads' = [threads EXCEPT ![t] = IdleThread]
    /\ UNCHANGED <<env, s_guard, s_hasSse42, probes, pc, call, history>>

NextThreads ==
    \E t \in Threads :
        \/ ThreadCall(t)
        \/ ThreadRead(t)
        \/ ThreadAcquire(t)
        \/ ThreadWait(t)
        \/ ThreadProbe(t)
        \/ ThreadRelease(t)
        \/ ThreadStep(t)
        \/ ThreadReturn(t)

SpecThreads == Init /\ [][NextThreads]_vars

\* ------------------------------------------------------------------------
\* Properties
\* ------------------------------------------------------------------------

Done(op) == pc = "done" /\ call.op = op
HashOf(kind) == Done("hash") /\ call.in.v.kind = kind
HashWidth == Len(call.in.Seed)
IsPowerOfTwo(size) == \E k \in 0..63 : size = PowerOfTwo(k)

\* C1: crc32c( state, byte ) returns what crc32cSoft( state, byte ) returns,
\* on the hardware path as on the software path, and so a 32-bit string hash
\* (the fold of crc32c over the bytes from Seed) equals the fold of crc32cSoft.
C1_HardwareSoftwareEquivalence ==
    /\ Done("crc32c") => call.ret = crc32cSoft(call.in.hash, call.in.ch)
    /\ (HashOf("str") /\ HashWidth = 4 /\ StringBytes(call.in.v) # <<>>)
          => call.ret = crcFold(FALSE, env.comp, call.in.Seed, StringBytes(call.in.v), 1)

\* crc32c has returned from the hardware instruction with a changed state
C1_Witness ==
    /\ Done("crc32c")
    /\ s_guard /\ s_hasSse42 /\ env.comp = "gnu"
    /\ call.in.hash = FNV_OFFSET_BASIS_32 /\ call.in.ch = 255
    /\ call.ret # call.in.hash

\* C2: an empty string (std::string, std::string_view or const char*) hashes
\* to 0 for every Seed and both output widths.
C2_EmptyStringHashesToZero ==
    (HashOf("str") /\ StringBytes(call.in.v) = <<>>) => IsZero(call.ret)

\* an empty C string has been hashed to 64 bits with the default seed
C2_Witness ==
    /\ HashOf("str")
    /\ call.in.v = StrV("cstr", <<0>>)
    /\ call.in.Seed = FNV_OFFSET_BASIS_64
    /\ call.ret = Zero(8)

\* C3: the integer 0 hashes to 0 for every Seed, every integral type and both
\* output widths.
C3_ZeroHashesToZero ==
    (HashOf("int") /\ IsZero(call.in.v.bits)) => IsZero(call.ret)

\* a 64-bit signed zero has been hashed to 32 bits with seed 0xDEADBEEF
C3_Witness ==
    /\ HashOf("int")
    /\ call.in.v = IntV([size |-> 8, signed |-> TRUE], Zero(8))
    /\ call.in.Seed = <<239, 190, 173, 222>>
    /\ call.ret = Zero(4)

\* C4: the upper and the lower 32 bits of the 64-bit hash of a non-empty
\* string differ, for every Seed.
C4_HalvesDiffer ==
    (HashOf("str") /\ HashWidth = 8 /\ StringBytes(call.in.v) # <<>>)
        => High32(call.ret) # CastU(call.ret, 4)

\* C5: the hash of a present optional differs from the hash of nullopt under
\* the same Hasher, whatever value it contains.
C5_NulloptDiffersFromPresent ==
    (HashOf("optional") /\ call.in.v.has)
        => call.ret # hashOptional(call.in.Seed, FALSE, Zero(HashWidth))

\* C6: an empty std::vector hashes to combine( Seed, hash( 0 ) ), and that is
\* not Seed, for every Seed and both output widths.
C6_EmptyVectorIsNotSeed ==
    (HashOf("vector") /\ call.in.v.elems = <<>>)
        => /\ call.ret = combine(call.in.Seed,
                                 hashInteger(call.in.Seed, SizeT, Zero(8)))
           /\ call.ret # call.in.Seed

\* C7: an empty std::array, an empty std::span and an empty std::tuple hash to
\* Seed unchanged.
C7_EmptyFoldIsSeed ==
    (Done("hash") /\ call.in.v.kind \in {"array", "span", "tuple"}
                  /\ call.in.v.elems = <<>>)
        => call.ret = call.in.Seed

\* an empty std::array has been hashed to 64 bits with the default seed
C7_Witness ==
    /\ HashOf("array")
    /\ call.in.v.elems = <<>>
    /\ call.in.Seed = FNV_OFFSET_BASIS_64
    /\ call.ret = FNV_OFFSET_BASIS_64

\* C8: a variant hashes differently from every variant that holds a value of
\* the same hash at another alternative index.
C8_VariantIndexDistinguishes ==
    HashOf("variant")
        => \A j \in (0..MaxIndex) \ {call.in.v.index} :
               call.ret # hashVariant(
                              hashInteger(call.in.Seed, SizeT, Word(8, j)),
                              Hasher(call.in.Seed, call.in.v.val,
                                     hasSse42Support, env.comp))

\* C9: for a power-of-two tableSize, seedMix returns a value in
\* [0, tableSize), in the 32-bit and in the 64-bit variant.
C9_SeedMixInRange ==
    (Done("seedMix") /\ IsPowerOfTwo(call.in.size))
        => Less(call.ret, call.in.size)

\* the 64-bit seedMix has returned a non-zero index into a table of 2^32
C9_Witness ==
    /\ Done("seedMix")
    /\ Len(call.in.seed) = 8
    /\ call.in.size = PowerOfTwo(32)
    /\ ~IsZero(call.ret)

\* C10: a non-empty string or a non-zero integer hashes differently under any
\* two distinct seeds of the same output width.
C10_SeedSensitivity ==
    (\/ HashOf("str") /\ StringBytes(call.in.v) # <<>>
     \/ HashOf("int") /\ ~IsZero(call.in.v.bits))
        => \A S2 \in Seeds :
               (Len(S2) = HashWidth /\ S2 # call.in.Seed)
                   => Hasher(S2, call.in.v, hasSse42Support, env.comp) # call.ret

\* a non-zero 8-bit integer has been hashed to 64 bits under a seed that
\* differs from another seed only in its upper half
C10_Witness ==
    /\ HashOf("int")
    /\ call.in.v = IntV([size |-> 1, signed |-> TRUE], <<255>>)
    /\ call.in.Seed = <<0, 0, 0, 0, 255, 0, 0, 0>>
    /\ ~IsZero(call.ret)

\* C11: a std::string, a std::string_view and a null-terminated const char*
\* that hold the same bytes hash to the same value under the same Hasher, at
\* both output widths.  A C string holds the bytes in front of its NUL, so
\* the bytes compared are free of NUL.
C11_StringFormsAgree ==
    (HashOf("str") /\ call.in.v.form # "cstr"
                   /\ \A i \in 1..Len(call.in.v.bytes) : call.in.v.bytes[i] # 0)
        => \A w \in StrValues :
               (\/ w.form # "cstr" /\ w.bytes = call.in.v.bytes
                \/ w.form = "cstr" /\ w.bytes = Append(call.in.v.bytes, 0))
                   => Hasher(call.in.Seed, w, hasSse42Support, env.comp) = call.ret

\* a two-byte std::string has been hashed to 64 bits with the default seed,
\* and the C string of the same bytes is among the keys
C11_Witness ==
    /\ HashOf("str")
    /\ call.in.v = StrV("string", <<97, 255>>)
    /\ call.in.Seed = FNV_OFFSET_BASIS_64
    /\ StrV("cstr", <<97, 255, 0>>) \in StrValues
    /\ ~IsZero(call.ret)

\* C12: the bit pattern of -0.0 hashes to what the bit pattern of +0.0
\* hashes to, for float and double, every Seed and both output widths.
C12_SignedZerosAgree ==
    (HashOf("float") /\ FloatIsZero(call.in.v.bits))
        => call.ret = Hasher(call.in.Seed, FloatV(Zero(Len(call.in.v.bits))),
                             hasSse42Support, env.comp)

\* the double -0.0 has been hashed to 32 bits with the default seed
C12_Witness ==
    /\ HashOf("float")
    /\ call.in.v = FloatV(<<0, 0, 0, 0, 0, 0, 0, 128>>)
    /\ call.in.Seed = FNV_OFFSET_BASIS_32
    /\ call.ret = Zero(4)

\* C13: any two NaN bit patterns of one floating-point type hash to the same
\* value, the hash of the canonical quiet NaN of that type.
C13_NaNsAgree ==
    (HashOf("float") /\ isnan(call.in.v.bits))
        => \A w \in FloatValues :
               (Len(w.bits) = Len(call.in.v.bits) /\ isnan(w.bits))
                   => Hasher(call.in.Seed, w, hasSse42Support, env.comp) = call.ret

\* a negative signaling float NaN of full payload has been hashed with the
\* default 32-bit seed to the hash of the quiet NaN
C13_Witness ==
    /\ HashOf("float")
    /\ call.in.v = FloatV(<<255, 255, 255, 255>>)
    /\ call.in.Seed = FNV_OFFSET_BASIS_32
    /\ call.ret = <<175, 226, 250, 92>>

\* two integer values of integral types are the same number
IsNegative(v) == v.T.signed /\ v.bits[Len(v.bits)] >= 128
SameInteger(v, w) ==
    /\ CastInt(v.bits, v.T, 8) = CastInt(w.bits, w.T, 8)
    /\ IsNegative(v) = IsNegative(w)

\* C14: the hash of an integer does not depend on the integral type that
\* carries it: the same number in another integral type has the same hash
\* under the same Hasher, at both output widths.
C14_IntegerTypeIndependent ==
    HashOf("int")
        => \A w \in IntValues :
               SameInteger(call.in.v, w)
                   => Hasher(call.in.Seed, w, hasSse42Support, env.comp) = call.ret

\* C15: every non-zero integer hashes to a non-zero value, at both output
\* widths.
C15_OnlyZeroHashesToZero ==
    (HashOf("int") /\ ~IsZero(call.in.v.bits)) => ~IsZero(call.ret)

\* the call that returns in this step reaches hasSse42Support()
NeedsFlag(c) ==
    \/ c.op = "crc32c"
    \/ c.op = "hash" /\ CallsCrc32c(c.in.v)

\* C17: the SSE4.2 flag is computed on the first call that needs it and by
\* no other call, at most once in the process (never, when the compiler
\* has no probe and the flag is a constant), and once set it keeps its
\* value: later calls read it.
C17_FlagComputedOnce ==
    [][/\ probes' <= 1
       /\ s_guard => (s_guard' /\ s_hasSse42' = s_hasSse42 /\ probes' = probes)
       /\ ~s_guard => (s_guard' <=> (pc' = "done" /\ NeedsFlag(call')))
       /\ (~s_guard /\ s_guard')
             => (/\ probes' = 1
                 /\ s_hasSse42' = Sse42Probe(env.comp, env.cpuidOk, env.ecxBit20))
       /\ (~s_guard /\ ~s_guard') => (~s_hasSse42' /\ probes' = 0)]_vars

\* a call of crc32c that did not run the initialiser has returned by the
\* hardware path, on the flag an earlier call set
C17_Witness ==
    /\ Done("crc32c")
    /\ ~call.probed
    /\ probes = 1
    /\ s_guard /\ s_hasSse42
    /\ call.path = "hardware"

\* the probe cannot tell: __get_cpuid reports failure, or the compiler has
\* no probe
ProbeUndetermined(e) == e.comp = "other" \/ (e.comp = "gnu" /\ ~e.cpuidOk)

\* C19: when the probe cannot determine SSE4.2 support the flag is false,
\* crc32c returns through crc32cSoft, and its result is the one the hardware
\* instruction gives.
C19_ProbeFailureFallsBack ==
    (Done("crc32c") /\ ProbeUndetermined(env))
        => /\ s_guard /\ ~s_hasSse42
           /\ call.path = "software"
           /\ call.ret = crc32cSoft(call.in.hash, call.in.ch)
           /\ call.ret = Crc32Instruction(call.in.hash, call.in.ch)

\* crc32c has returned in a GNU-style build whose __get_cpuid failed
C19_Witness ==
    /\ Done("crc32c")
    /\ env.comp = "gnu" /\ ~env.cpuidOk
    /\ call.probed
    /\ call.in = [hash |-> FNV_OFFSET_BASIS_32, ch |-> 97]
    /\ call.path = "software"

\* C20: a build without the SSE4.2 compiler flags gives a library whose
\* crc32c returns through crc32cSoft whatever the CPU probe reports.
C20_NoFlagsSoftwareFallback ==
    ~env.sse42Flags
        => /\ pc # "build failed"
           /\ Done("crc32c") => call.path = "software"

\* what the call c returns when hasSse42Support() returns flag to it
ReturnsOn(c, flag) ==
    IF c.op = "crc32c" THEN crc32c(flag, env.comp, c.in.hash, c.in.ch)
    ELSE Hasher(c.in.Seed, c.in.v, flag, env.comp)

\* C16: hashing is deterministic over a sequence of calls: two calls of the
\* same operation on the same input (value, output width and Seed) return
\* the same hash, whatever was called in between and whether or not the
\* SSE4.2 flag was initialised when each was made; the value a call
\* returned does not depend on the flag it found: it is the one the call
\* returns on a flag that is false and the one it returns on a flag that
\* is true (stated of the call that has just returned).
C16_RepeatCallsAgree ==
    /\ \A i \in 1..Len(history), j \in 1..Len(history) :
          (/\ history[i].call.op = history[j].call.op
           /\ history[i].call.in = history[j].call.in)
              => history[i].call.ret = history[j].call.ret
    /\ \A flag \in BOOLEAN :
          (history # <<>> /\ pc = "done")
              => LET latest == history[Len(history)].call
                 IN  latest.ret = ReturnsOn(latest, flag)

\* a string was hashed while the flag was uninitialised, another value was
\* hashed, and the string was hashed again on the flag by then set
C16_Witness ==
    /\ Len(history) = 3
    /\ history[1].call.op = "hash"
    /\ history[1].call.in.v = StrV("cstr", <<97, 255, 0>>)
    /\ history[2].call.in # history[1].call.in
    /\ history[3].call.in = history[1].call.in
    /\ history[1].cold /\ ~history[3].cold
    /\ s_hasSse42
    /\ history[3].call.ret = history[1].call.ret

\* what the call of a thread returns when it runs alone
Sequential(th) ==
    LET flag == Sse42Probe(env.comp, env.cpuidOk, env.ecxBit20)
    IN  IF th.op = "crc32c" THEN crc32c(flag, env.comp, th.in.hash, th.in.ch)
        ELSE Hasher(th.in.Seed, th.in.v, flag, env.comp)

\* C18: when threads call crc32c or a string hash concurrently on the
\* uninitialised flag, in every interleaving a thread reads the flag only
\* once it is initialised, every thread reads the same value, the
\* initialiser runs once, and every call returns what it returns in a
\* sequential run.
C18_ConcurrentFirstUse ==
    /\ probes <= 1
    /\ \A t \in Threads :
          /\ threads[t].pc = "step"
                => (/\ s_guard
                    /\ threads[t].flag = Sse42Probe(env.comp, env.cpuidOk, env.ecxBit20))
          /\ threads[t].pc = "done" => threads[t].ret = Sequential(threads[t])
    /\ \A t \in Threads, u \in Threads :
          (threads[t].pc = "step" /\ threads[u].pc = "step")
              => threads[t].flag = threads[u].flag

\* one thread ran the initialiser while the other was held at the guard,
\* and both have returned from their calls on an SSE4.2 CPU
C18_Witness ==
    /\ threads[1].pc = "done" /\ threads[1].probed
    /\ threads[2].pc = "done" /\ threads[2].waited
    /\ threads[1].op = "crc32c"
    /\ threads[2].op = "hash" /\ Len(threads[2].in.Seed) = 8
    /\ s_hasSse42
    /\ probes = 1

\* C21: the low 32 bits of the 64-bit hash of a string under Seed 0 are the
\* 32-bit hash of the same string under Seed 0.
C21_LowHalfIsNarrowHash ==
    (HashOf("str") /\ call.in.Seed = Zero(8))
        => CastU(call.ret, 4)
               = Hasher(Zero(4), call.in.v, hasSse42Support, env.comp)

\* a two-byte string has been hashed to 64 bits under Seed 0, with a high
\* half that is not the low half
C21_Witness ==
    /\ HashOf("str")
    /\ call.in.Seed = Zero(8)
    /\ call.in.v = StrV("string_view", <<97, 255>>)
    /\ High32(call.ret) # CastU(call.ret, 4)
    /\ ~IsZero(CastU(call.ret, 4))

\* the XOR of the upper and the lower half of a 64-bit hash
HalvesXor(h) == Xor(High32(h), CastU(h, 4))

\* C27: under one 64-bit Seed the XOR of the upper and lower halves of the
\* string hash is the same for all non-empty strings of one length: it is
\* the one of the string of that many 0x00 bytes.
C27_HalvesXorDependsOnLength ==
    (HashOf("str") /\ HashWidth = 8 /\ StringBytes(call.in.v) # <<>>)
        => HalvesXor(call.ret)
               = HalvesXor(Hasher(call.in.Seed,
                                  StrV("string", Zero(Len(StringBytes(call.in.v)))),
                                  hasSse42Support, env.comp))

\* the string "a\xFF" has been hashed to 64 bits with the default seed, and
\* a string of the same length with other bytes has another hash
C27_Witness ==
    /\ HashOf("str")
    /\ call.in.Seed = FNV_OFFSET_BASIS_64
    /\ call.in.v = StrV("string", <<97, 255>>)
    /\ Hasher(call.in.Seed, StrV("string", <<255, 97>>), hasSse42Support, env.comp)
           # call.ret

\* C28: under Seed 0 and the 32-bit output a leading 0x00 byte does not
\* change the hash of a string, so runs of leading zero bytes do not, and a
\* string of zero bytes only hashes to 0 as the empty string does.
C28_LeadingZerosIgnored ==
    (/\ HashOf("str") /\ call.in.Seed = Zero(4)
     /\ call.in.v.form # "cstr"
     /\ call.in.v.bytes # <<>> /\ call.in.v.bytes[1] = 0)
        => /\ call.ret = Hasher(Zero(4), StrV(call.in.v.form, Tail(call.in.v.bytes)),
                                hasSse42Support, env.comp)
           /\ (\A i \in 1..Len(call.in.v.bytes) : call.in.v.bytes[i] = 0)
                 => call.ret = Zero(4)

\* the string "\0a" has been hashed under Seed 0 to the non-zero hash of "a"
C28_Witness ==
    /\ HashOf("str")
    /\ call.in.Seed = Zero(4)
    /\ call.in.v = StrV("string", <<0, 97>>)
    /\ call.ret = crc32cSoft(Zero(4), 97)
    /\ ~IsZero(call.ret)

\* 37 * x as a sum of shifts: 37 = 32 + 4 + 1
Times37(x) == Add(Add(Shl(x, 5), Shl(x, 2)), x)

\* C22: larson( state, byte ) is (37 * state + byte) modulo 2^W at W = 32
\* and W = 64, and the bytes 'A', 'B', 'C' folded from state 0 give 65, then
\* 2471, then 91494 at both widths.
C22_LarsonArithmetic ==
    Done("larson")
        => LET n == Len(call.in.hash)
           IN  /\ Len(call.ret) = n
               /\ call.ret = Add(Times37(call.in.hash), Word(n, call.in.ch))
               /\ (call.in.hash = Zero(n) /\ call.in.ch = 65)
                     => call.ret = Word(n, 65)
               /\ (call.in.hash = Word(n, 65) /\ call.in.ch = 66)
                     => call.ret = Word(n, 2471)
               /\ (call.in.hash = Word(n, 2471) /\ call.in.ch = 67)
                     => call.ret = Word(n, 91494)

\* the 64-bit larson has folded 'C' into 2471
C22_Witness ==
    /\ Done("larson")
    /\ call.in = [hash |-> Word(8, 2471), ch |-> 67]
    /\ call.ret = <<102, 101, 1, 0, 0, 0, 0, 0>>

\* C23: on one pair (a, b) the explicit-prime combine with the FNV prime
\* and the default combine return different values.
C23_CombineFormsDiffer ==
    (Done("combinePrime")
     /\ call.in.prime \in {FNV_PRIME_32, FNV_PRIME_64})
        => call.ret # combine(call.in.existingHash, call.in.newHash)

\* C24: seedMix on a table size that is not a power of two makes no check
\* of the size and returns the mixed product masked with size - 1: the bits
\* of the index it returns for a table of 2^63 that size - 1 keeps.
C24_SeedMixUncheckedSize ==
    (Done("seedMix") /\ ~IsPowerOfTwo(call.in.size))
        => LET n == Len(call.in.seed)
               wide == seedMix(call.in.seed, call.in.hash, PowerOfTwo(63),
                               SEED_MIX_MULTIPLIER_64)
               low63 == CastU(Sub(PowerOfTwo(63), Word(8, 1)), n)
               mask == CastU(Sub(call.in.size, Word(8, 1)), n)
           IN  /\ And(call.ret, mask) = call.ret
               /\ And(call.ret, low63) = And(wide, mask)

\* the 64-bit seedMix has returned the index 292 into a table of 1000
C24_Witness ==
    /\ Done("seedMix")
    /\ call.in.size = Word(8, 1000)
    /\ call.in.seed = FNV_OFFSET_BASIS_64 /\ call.in.hash = Word(8, 42)
    /\ call.ret = Word(8, 292)

\* C25: for a custom type the Seed is a final XOR on the platform hash:
\* the hashes of one value under two seeds differ by the XOR of the seeds,
\* and values that collide under one seed collide under every seed.
C25_FallbackSeedIsFinalXor ==
    HashOf("custom")
        => \A S2 \in Seeds :
               Len(S2) = HashWidth
                   => LET H2(w) == Hasher(S2, w, hasSse42Support, env.comp)
                      IN  /\ Xor(call.ret, H2(call.in.v)) = Xor(call.in.Seed, S2)
                          /\ \A w \in CustomValues :
                                Hasher(call.in.Seed, w, hasSse42Support, env.comp)
                                    = call.ret
                                  => H2(w) = H2(call.in.v)

\* a custom value whose platform hash is 2^32 has been hashed to 32 bits
\* with the default seed, as the value of platform hash 1 is
C25_Witness ==
    /\ HashOf("custom")
    /\ call.in.v = CustomV(<<0, 0, 0, 0, 1, 0, 0, 0>>)
    /\ call.in.Seed = FNV_OFFSET_BASIS_32
    /\ call.ret = Hasher(call.in.Seed, CustomV(Word(8, 1)), hasSse42Support, env.comp)
    /\ call.ret = <<196, 157, 28, 129>>

\* C26: under one Seed, for an input type no wider than the output, two
\* distinct values of the type have equal integer hashes only when one is 0
\* and the other equals Seed, and then both hash to 0.
C26_InjectiveButZeroAndSeed ==
    (HashOf("int") /\ call.in.v.T.size <= HashWidth)
        => \A w \in IntValues :
               (/\ w.T = call.in.v.T
                /\ w.bits # call.in.v.bits
                /\ Hasher(call.in.Seed, w, hasSse42Support, env.comp) = call.ret)
                   => /\ IsZero(call.ret)
                      /\ \/ /\ IsZero(w.bits)
                            /\ CastInt(call.in.v.bits, call.in.v.T, HashWidth)
                                  = call.in.Seed
                         \/ /\ IsZero(call.in.v.bits)
                            /\ CastInt(w.bits, w.T, HashWidth) = call.in.Seed

\* the value equal to the default 32-bit seed has been hashed to 0, the
\* hash of 0
C26_Witness ==
    /\ HashOf("int")
    /\ call.in.v = IntV(UInt32, FNV_OFFSET_BASIS_32)
    /\ call.in.Seed = FNV_OFFSET_BASIS_32
    /\ call.ret = Zero(4)
    /\ IntV(UInt32, Zero(4)) \in IntValues

\* C29: the explicit-prime combine is symmetric in its two hashes:
\* combine( a, b, prime ) = combine( b, a, prime ), at both widths.
C29_CombinePrimeSymmetric ==
    Done("combinePrime")
        => call.ret = combinePrime(call.in.newHash, call.in.existingHash,
                                   call.in.prime)

\* two different 64-bit hashes have been combined with the FNV prime, and
\* chained through an accumulator their order matters
C29_Witness ==
    /\ Done("combinePrime")
    /\ call.in = [existingHash |-> FNV_OFFSET_BASIS_64, newHash |-> Word(8, 42),
                   prime |-> FNV_PRIME_64]
    /\ call.ret = <<125, 146, 1, 134, 76, 167, 99, 175>>
    /\ combinePrime(combinePrime(Zero(8), call.in.existingHash, call.in.prime),
                    call.in.newHash, call.in.prime)
           # combinePrime(combinePrime(Zero(8), call.in.newHash, call.in.prime),
                          call.in.existingHash, call.in.prime)

\* C30: under one Hasher an absent optional and an empty std::vector hash
\* to the same value, combine( Seed, 0 ), for every Seed and both widths.
C30_AbsentOptionalIsEmptyVector ==
    /\ (HashOf("optional") /\ ~call.in.v.has)
          => /\ call.ret = combine(call.in.Seed, Zero(HashWidth))
             /\ call.ret = Hasher(call.in.Seed, SeqV("vector", <<>>),
                                  hasSse42Support, env.comp)
    /\ (HashOf("vector") /\ call.in.v.elems = <<>>)
          => /\ call.ret = combine(call.in.Seed, Zero(HashWidth))
             /\ call.ret = Hasher(call.in.Seed, OptV(FALSE, NoValue),
                                  hasSse42Support, env.comp)

\* an absent optional has been hashed to 64 bits with the default seed
C30_Witness ==
    /\ HashOf("optional")
    /\ ~call.in.v.has
    /\ call.in.Seed = FNV_OFFSET_BASIS_64
    /\ call.ret = <<42, 216, 250, 187, 240, 201, 102, 254>>

====
